---- MODULE Spec2Model ----
(***************************************************************************)
(* A model of migration-tools: run_merge and the merges it drives          *)
(* (src/src/migration_tools/merge.py) with the pure transforms they use    *)
(* (src/src/migration_tools/transform.py).                                  *)
(*                                                                         *)
(* Python values are represented as follows.                               *)
(*   None / a value v       the sequences << >> and <<v>>                  *)
(*   str                    a sequence of one-character strings            *)
(*   datetime               [t |-> instant, tz |-> << >> or <<utcoffset>>] *)
(*   a table                a function from primary key to row             *)
(* The target database is PostgreSQL: the three tables are transactional,  *)
(* the sequence behind tbl_user.id is not (setval is never rolled back).   *)
(***************************************************************************)
EXTENDS Integers, Sequences, FiniteSets, TLC

\* ------------------------------------------------------------------ bounds

\* Largest legacy user id; the target may also hold id MaxUserId + 1.
MaxUserId == 2
\* Largest number of legacy images of one run.
MaxImages == 2
\* Largest batch_size tried.
MaxBatch == 2
\* The most legacy users, the most legacy images and the largest batch size
\* of the runs that compare batch sizes.
MaxRows == 3

\* --------------------------------------------------------------------- state

VARIABLES
    users, images,          \* the legacy (source) tables users and images
    config,                 \* MergeConfig: batch_size, dry_run
    now,                    \* what datetime.utcnow() returns during this run
    run,                    \* "first", or "second" for a run_merge made after one
    tbl_user, tbl_image, tbl_image_aspect,
                            \* the target tables as target_conn's session sees them
    tbl_user_id_seq,        \* the sequence behind tbl_user.id
    committed,              \* the target tables as durably committed
    source_engine, target_engine,   \* "none", "created", "disposed"
    source_conn, target_conn,       \* "none", "open", "closed"
    source_tx, target_tx,   \* "none", "active", "committed", "rolled_back"
    released,               \* how often each engine and connection was released
    pc,                     \* the statement run_merge is at
    exc,                    \* the exception propagating, if any
    existing_ids, existing_uuids, known_user_ids,
    rows, payload, summary, \* locals of the merge in progress
    flushed,                \* rows the merge in progress has passed to its upsert
    users_summary, images_summary,
    warnings,               \* logger.warning calls of merge_images: <<uuid, reason>>
    result,                 \* what run_merge returned
    pre,                    \* the target as it was when this run started
    written,                \* uuids of the image rows this run has flushed
    faults,                 \* the calls that raised in this run, in order
    history,                \* the earlier runs: dry_run, pre, post, result
    call,                   \* the last call of a function made on its own: name, arguments
    ret                     \* what that call returned or raised

\* ------------------------------------------------------------ python values

None == << >>

Some(v) == <<v>>

IsNone(o) == o = << >>

Val(o) == o[1]

\* ------------------------------------------------------------------ strings

LowerChars == <<"a","b","c","d","e","f","g","h","i","j","k","l","m",
                "n","o","p","q","r","s","t","u","v","w","x","y","z">>

UpperChars == <<"A","B","C","D","E","F","G","H","I","J","K","L","M",
                "N","O","P","Q","R","S","T","U","V","W","X","Y","Z">>

Range(s) == {s[i] : i \in DOMAIN s}

IsLower(c) == c \in Range(LowerChars)

IsUpper(c) == c \in Range(UpperChars)

IsCased(c) == IsLower(c) \/ IsUpper(c)

IsSpace(c) == c \in {" ", "\t", "\n"}

IndexOf(c, chars) == CHOOSE i \in DOMAIN chars : chars[i] = c

UpperChar(c) == IF IsLower(c) THEN UpperChars[IndexOf(c, LowerChars)] ELSE c

LowerChar(c) == IF IsUpper(c) THEN LowerChars[IndexOf(c, UpperChars)] ELSE c

\* str.upper()
Upper(s) == [i \in DOMAIN s |-> UpperChar(s[i])]

\* str.lower()
Lower(s) == [i \in DOMAIN s |-> LowerChar(s[i])]

\* str.title(): a cased character is upper-cased after an uncased one (or at
\* the start) and lower-cased after a cased one.
Title(s) ==
    [i \in DOMAIN s |->
        IF i = 1 \/ ~IsCased(s[i - 1]) THEN UpperChar(s[i]) ELSE LowerChar(s[i])]

RECURSIVE LStrip(_)
LStrip(s) == IF s # << >> /\ IsSpace(Head(s)) THEN LStrip(Tail(s)) ELSE s

RECURSIVE RStrip(_)
RStrip(s) ==
    IF s # << >> /\ IsSpace(s[Len(s)]) THEN RStrip(SubSeq(s, 1, Len(s) - 1)) ELSE s

\* str.strip()
Strip(s) == RStrip(LStrip(s))

\* Python truthiness of an Optional[str]: neither None nor "".
Truthy(o) == ~IsNone(o) /\ Val(o) # << >>

\* ---------------------------------------------------------------- transform

BACKGROUND == <<"B","A","C","K","G","R","O","U","N","D">>

FRAME == <<"F","R","A","M","E">>

CHARACTER == <<"C","H","A","R","A","C","T","E","R">>

MASK == <<"M","A","S","K">>

LABEL == <<"L","A","B","E","L">>

PASSNAME == <<"P","A","S","S","N","A","M","E">>

CardBackground == "card-background"

SegaPassname == "sega-passname"

_KIND_TO_ASPECT ==
    [k \in {BACKGROUND, FRAME, CHARACTER, MASK, LABEL, PASSNAME} |->
        IF k = PASSNAME THEN SegaPassname ELSE CardBackground]

\* A faulty lookup: the kind is not upper-cased before it is looked up.
DeriveAspectIdCaseSensitive(kind) ==
    LET key == IF Truthy(kind) THEN Val(kind) ELSE << >>
    IN  IF key \notin DOMAIN _KIND_TO_ASPECT
        THEN [ok |-> FALSE, error |-> "UnknownAspectError"]
        ELSE [ok |-> TRUE, value |-> _KIND_TO_ASPECT[key]]

\* derive_aspect_id: [ok |-> TRUE, value |-> id], or the raised error.
derive_aspect_id(kind) ==
    LET key == Upper(IF Truthy(kind) THEN Val(kind) ELSE << >>)
    IN  IF key \notin DOMAIN _KIND_TO_ASPECT
        THEN [ok |-> FALSE, error |-> "UnknownAspectError"]
        ELSE [ok |-> TRUE, value |-> _KIND_TO_ASPECT[key]]

Unclassified == <<"u","n","c","l","a","s","s","i","f","i","e","d">>

\* Faulty labels: no fallback when neither kind nor category contributes.
BuildImageLabelsWithoutFallback(kind, category) ==
    (IF Truthy(kind) THEN <<Lower(Val(kind))>> ELSE << >>)
    \o (IF Truthy(category) /\ Strip(Val(category)) # << >>
        THEN <<Lower(Strip(Val(category)))>> ELSE << >>)

build_image_labels(kind, category) ==
    LET l1 == IF Truthy(kind) THEN <<Lower(Val(kind))>> ELSE << >>
        l2 == IF Truthy(category) /\ Strip(Val(category)) # << >>
              THEN <<Lower(Strip(Val(category)))>> ELSE << >>
        labels == l1 \o l2
    IN  IF labels # << >> THEN labels ELSE <<Unclassified>>

ImageWord == <<"I","m","a","g","e">>

build_image_name(label, uuid, kind) ==
    IF Truthy(label) /\ Strip(Val(label)) # << >>
    THEN Strip(Val(label))
    ELSE (IF Truthy(kind) THEN Title(Val(kind)) ELSE ImageWord) \o <<"-">> \o uuid

\* "Legacy image imported via migration-tools"
FallbackDescription ==
    <<"L","e","g","a","c","y"," ","i","m","a","g","e"," ",
      "i","m","p","o","r","t","e","d"," ","v","i","a"," ",
      "m","i","g","r","a","t","i","o","n","-","t","o","o","l","s">>

RECURSIVE FirstNonBlank(_, _)
FirstNonBlank(candidates, fallback) ==
    IF candidates = << >> THEN fallback
    ELSE IF Truthy(Head(candidates)) /\ Strip(Val(Head(candidates))) # << >>
         THEN Strip(Val(Head(candidates)))
         ELSE FirstNonBlank(Tail(candidates), fallback)

\* A faulty choice: the first candidate that is not empty wins, blank or not.
BuildImageDescriptionFirstNonEmpty(label, category, kind) ==
    LET candidates == <<label, category,
                        IF Truthy(kind) THEN Some(Title(Val(kind))) ELSE None>>
        given == {i \in 1..3 : Truthy(candidates[i])}
    IN  IF given = {} THEN FallbackDescription
        ELSE Strip(Val(candidates[CHOOSE i \in given : \A j \in given : i <= j]))

build_image_description(label, category, kind) ==
    FirstNonBlank(
        <<label, category, IF Truthy(kind) THEN Some(Title(Val(kind))) ELSE None>>,
        FallbackDescription)

normalize_privileges == <<"NORMAL">>

MergeSectionResult == [processed |-> 0, inserted |-> 0, updated |-> 0, skipped |-> 0]

\* ----------------------------------------------------------------- datetime

Naive(t) == [t |-> t, tz |-> None]

Aware(t, offset) == [t |-> t, tz |-> Some(offset)]

\* _ensure_datetime: None becomes the clock's reading, an aware value is
\* converted to UTC and loses its zone, a naive value is kept.
_ensure_datetime(value, utcnow) ==
    IF IsNone(value) THEN Naive(utcnow)
    ELSE IF ~IsNone(Val(value).tz)
         THEN Naive(Val(value).t - Val(Val(value).tz))
         ELSE Val(value)

\* ------------------------------------------------------------- row adapters

_adapt_user_row(row, utcnow) ==
    [id         |-> row.id,
     username   |-> row.username,
     password   |-> row.hashed_password,
     phone      |-> None,
     privileges |-> normalize_privileges,
     created_at |-> _ensure_datetime(row.created_at, utcnow),
     updated_at |-> Naive(utcnow)]

DefaultVisibility == 1

_adapt_image_row(row, aspect_id, utcnow) ==
    [uuid        |-> row.uuid,
     user_id     |-> Val(row.uploaded_by),
     aspect_id   |-> aspect_id,
     name        |-> build_image_name(row.label, row.uuid, row.kind),
     description |-> build_image_description(row.label, row.category, row.kind),
     visibility  |-> DefaultVisibility,
     labels      |-> build_image_labels(row.kind, row.category),
     file_name   |-> row.file_name,
     metadata_id |-> row.trace_id,
     created_at  |-> _ensure_datetime(row.uploaded_at, utcnow),
     updated_at  |-> Naive(utcnow)]

\* ------------------------------------------------------------------- upserts

\* A faulty upsert: under dry_run nothing is written to tbl_user.
UpsertUserUnlessDryRun(tbl, e) ==
    IF config.dry_run THEN tbl
    ELSE IF e.id \in DOMAIN tbl
    THEN [tbl EXCEPT ![e.id] = [e EXCEPT !.created_at = tbl[e.id].created_at]]
    ELSE [k \in DOMAIN tbl \cup {e.id} |-> IF k = e.id THEN e ELSE tbl[k]]

\* A faulty upsert: ON CONFLICT (id) DO NOTHING.
UpsertUserDoingNothing(tbl, e) ==
    IF e.id \in DOMAIN tbl THEN tbl
    ELSE [k \in DOMAIN tbl \cup {e.id} |-> IF k = e.id THEN e ELSE tbl[k]]

\* INSERT ... ON CONFLICT (id) DO UPDATE SET <every column but id, created_at>
UpsertUser(tbl, e) ==
    IF e.id \in DOMAIN tbl
    THEN [tbl EXCEPT ![e.id] = [e EXCEPT !.created_at = tbl[e.id].created_at]]
    ELSE [k \in DOMAIN tbl \cup {e.id} |-> IF k = e.id THEN e ELSE tbl[k]]

\* A faulty flush: tbl_user is emptied before the batch is inserted.
UpsertUsersReplacingTable(tbl, batch) ==
    IF batch = << >> THEN tbl
    ELSE [id \in {batch[i].id : i \in DOMAIN batch} |->
             LET i == CHOOSE j \in DOMAIN batch : batch[j].id = id IN batch[i]]

RECURSIVE _upsert_users(_, _)
_upsert_users(tbl, batch) ==
    IF batch = << >> THEN tbl
    ELSE _upsert_users(UpsertUser(tbl, Head(batch)), Tail(batch))

\* A faulty upsert: on conflict every column is overwritten, created_at too.
UpsertImageReplacingRow(tbl, e) ==
    [k \in DOMAIN tbl \cup {e.uuid} |-> IF k = e.uuid THEN e ELSE tbl[k]]

\* INSERT ... ON CONFLICT (uuid) DO UPDATE SET <every column but uuid, created_at>
UpsertImage(tbl, e) ==
    IF e.uuid \in DOMAIN tbl
    THEN [tbl EXCEPT ![e.uuid] = [e EXCEPT !.created_at = tbl[e.uuid].created_at]]
    ELSE [k \in DOMAIN tbl \cup {e.uuid} |-> IF k = e.uuid THEN e ELSE tbl[k]]

RECURSIVE _upsert_images(_, _)
_upsert_images(tbl, batch) ==
    IF batch = << >> THEN tbl
    ELSE _upsert_images(UpsertImage(tbl, Head(batch)), Tail(batch))

\* ------------------------------------------------------------------- aspects

RequiredAspects ==
    [k \in {CardBackground, SegaPassname} |->
        IF k = CardBackground
        THEN [id |-> CardBackground, name |-> "Card Background",
              description |-> "ID-1 portrait card",
              ratio_width_unit |-> 768, ratio_height_unit |-> 1220]
        ELSE [id |-> SegaPassname, name |-> "SEGA Passname",
              description |-> "PASSNAME landscape pass",
              ratio_width_unit |-> 338, ratio_height_unit |-> 112]]

\* A faulty seeding: the required rows overwrite the rows that are there.
EnsureOverwritingAspects(tbl) ==
    [k \in DOMAIN tbl \cup DOMAIN RequiredAspects |->
        IF k \in DOMAIN RequiredAspects THEN RequiredAspects[k] ELSE tbl[k]]

\* ensure_required_aspects: the table after the call.  Only the required
\* ids the SELECT did not return are inserted (ON CONFLICT DO NOTHING).
ensure_required_aspects(tbl) ==
    LET existing == DOMAIN tbl \cap DOMAIN RequiredAspects
        missing  == DOMAIN RequiredAspects \ existing
    IN  [k \in DOMAIN tbl \cup missing |->
            IF k \in DOMAIN tbl THEN tbl[k] ELSE RequiredAspects[k]]

\* ------------------------------------------------------------------- helpers

_collect_existing_ids(tbl) == DOMAIN tbl

MaxOf(S) == CHOOSE m \in S : \A x \in S : x <= m

\* A faulty synchronisation: setval(..., false), so that the next id the
\* sequence generates is MAX(id) itself.
SyncSequenceNotCalled(tbl) ==
    LET value == IF DOMAIN tbl = {} THEN 0 ELSE MaxOf(DOMAIN tbl)
    IN  IF value < 1
        THEN [ok |-> FALSE, error |-> "db"]
        ELSE [ok |-> TRUE, seq |-> [last_value |-> value, is_called |-> FALSE]]

\* SELECT setval(sequence, COALESCE((SELECT MAX(id) FROM tbl_user), 0), true)
\* tbl_user_id_seq is the sequence PostgreSQL creates for a serial column:
\* its values start at 1, and setval raises for a value below that.
_sync_sequence(tbl) ==
    LET value == IF DOMAIN tbl = {} THEN 0 ELSE MaxOf(DOMAIN tbl)
    IN  IF value < 1
        THEN [ok |-> FALSE, error |-> "db"]
        ELSE [ok |-> TRUE, seq |-> [last_value |-> value, is_called |-> TRUE]]

\* nextval of a sequence with increment 1.
NextVal(seq) == IF seq.is_called THEN seq.last_value + 1 ELSE seq.last_value

\* -------------------------------------------------------------- input pools

Digits == <<"0","1","2","3","4","5","6","7","8","9">>

\* The uuid of the k-th image.
Uuid(k) == <<"u", Digits[k + 1]>>

STICKER == <<"s","t","i","c","k","e","r">>

\* The one target user id no legacy user has.
OrganicOnlyId == MaxUserId + 1

\* A row of the legacy table users.  created_at is NULL for odd ids and a
\* zoned timestamp for even ones.
LegacyUser(id) ==
    [id |-> id, username |-> "legacy-name", hashed_password |-> "legacy-hash",
     created_at |-> IF id % 2 = 1 THEN None ELSE Some(Aware(4, 1))]

\* A row of the legacy table images, by what decides its fate.
LegacyImage(k, uploaded_by, kind, label, category, uploaded_at) ==
    [uuid |-> Uuid(k), kind |-> kind, label |-> label, file_name |-> "legacy.png",
     uploaded_by |-> uploaded_by, uploaded_at |-> uploaded_at,
     category |-> category, trace_id |-> IF k % 2 = 1 THEN Some("trace") ELSE None]

\* The rows image k may be: an odd k has no uploader and an unmapped kind, or
\* legacy user 1 and a mapped kind, or the organic-only user and an unmapped
\* kind; an even k has the organic-only user and a mapped lower-case kind, or
\* legacy user 1 and no kind, or legacy user 1 and a mapped mixed-case kind.
ImageVariants(k) ==
    IF k % 2 = 1
    THEN {LegacyImage(k, None, Some(STICKER), None, None, None),
          LegacyImage(k, Some(1), Some(BACKGROUND), Some(<<" ","H","i"," ">>), None,
                      Some(Naive(1))),
          LegacyImage(k, Some(OrganicOnlyId), Some(STICKER), Some(<<" ">>),
                      Some(<<" ">>), Some(Naive(0)))}
    ELSE {LegacyImage(k, Some(OrganicOnlyId), Some(Lower(PASSNAME)), None,
                      Some(<<" ","E","v","e","n","t">>), Some(Aware(1, 1))),
          LegacyImage(k, Some(1), None, None, None, Some(Naive(0))),
          LegacyImage(k, Some(1), Some(<<"F","r","a","m","e">>), Some(<<>>), None,
                      None)}

\* A user the target held before any migration.
OrganicUser(id) ==
    [id |-> id, username |-> "organic-name", password |-> "organic-hash",
     phone |-> Some("555"), privileges |-> <<"ADMIN">>,
     created_at |-> Naive(0), updated_at |-> Naive(0)]

\* An image the target held before any migration, under the first uuid.
OrganicImage(owner) ==
    [uuid |-> Uuid(1), user_id |-> owner, aspect_id |-> CardBackground,
     name |-> <<"o","l","d">>, description |-> <<"o","l","d">>, visibility |-> 0,
     labels |-> <<<<"o","l","d">>>>, file_name |-> "organic.png",
     metadata_id |-> None, created_at |-> Naive(0), updated_at |-> Naive(0)]

\* A seed row an operator edited by hand.
CustomAspect(id) == [RequiredAspects[id] EXCEPT !.name = "custom"]

EmptyTable == [k \in {} |-> k]

\* The target databases a run may find: any users among the two largest
\* ids; no aspect rows or a hand-edited card row; an organic image only with
\* an owner and its aspect row (the foreign keys of tbl_image); the sequence
\* where organic inserts left it.
TargetStates ==
    { [tbl_user |-> [k \in x[1] |-> OrganicUser(k)],
       tbl_image_aspect |-> [k \in x[2] |-> CustomAspect(k)],
       tbl_image |-> IF x[3] THEN [k \in {Uuid(1)} |-> OrganicImage(MaxOf(x[1]))]
                     ELSE EmptyTable,
       tbl_user_id_seq |-> IF x[1] = {} THEN [last_value |-> 1, is_called |-> FALSE]
                           ELSE [last_value |-> MaxOf(x[1]), is_called |-> TRUE]] :
        x \in { y \in (SUBSET {MaxUserId, OrganicOnlyId}) \X {{}, {CardBackground}}
                       \X BOOLEAN :
                    y[3] => (y[1] # {} /\ y[2] # {}) } }

\* The legacy tables users a run may read: the ids 1..n.
UserTables == { [k \in 1..n |-> LegacyUser(k)] : n \in 0..MaxUserId }

\* The legacy tables images a run may read: each of the first n uuids with
\* one of its variants.
LegacyImageTables ==
    UNION { [ {Uuid(k) : k \in 1..n} -> UNION {ImageVariants(k) : k \in 1..n} ] :
            n \in 0..MaxImages }

ImageTables == { t \in LegacyImageTables : \A u \in DOMAIN t : t[u].uuid = u }

\* The legacy tables of the runs that compare batch sizes: up to MaxRows
\* users and up to MaxRows images.
BatchUserTables == { [k \in 1..n |-> LegacyUser(k)] : n \in 0..MaxRows }

BatchImageTables ==
    { t \in UNION { [ {Uuid(k) : k \in 1..n} -> UNION {ImageVariants(k) : k \in 1..n} ] :
                    n \in 0..MaxRows } :
        \A u \in DOMAIN t : t[u].uuid = u }

\* The targets of those runs: the empty ones and the ones that hold both
\* organic users.
BatchTargetStates ==
    { db \in TargetStates : DOMAIN db.tbl_user \in {{}, {MaxUserId, OrganicOnlyId}} }

\* ------------------------------------------------------------------- sorting

\* ASCII order of the characters the uuids are made of.
CharRank(c) ==
    IF c \in Range(Digits) THEN IndexOf(c, Digits)
    ELSE IF IsUpper(c) THEN 10 + IndexOf(c, UpperChars)
    ELSE IF IsLower(c) THEN 40 + IndexOf(c, LowerChars)
    ELSE 0

RECURSIVE StrLess(_, _)
StrLess(a, b) ==
    IF b = << >> THEN FALSE
    ELSE IF a = << >> THEN TRUE
    ELSE IF Head(a) = Head(b) THEN StrLess(Tail(a), Tail(b))
    ELSE CharRank(Head(a)) < CharRank(Head(b))

\* ORDER BY uploaded_at, uuid (MariaDB sorts NULL first).
ImageBefore(a, b) ==
    LET ka == IF IsNone(a.uploaded_at) THEN -1 ELSE Val(a.uploaded_at).t
        kb == IF IsNone(b.uploaded_at) THEN -1 ELSE Val(b.uploaded_at).t
    IN  ka < kb \/ (ka = kb /\ StrLess(a.uuid, b.uuid))

UserBefore(a, b) == a.id < b.id

\* SELECT ... FROM users ORDER BY id
RECURSIVE SelectUsers(_)
SelectUsers(tbl) ==
    IF DOMAIN tbl = {} THEN << >>
    ELSE LET S == Range(tbl)
             first == CHOOSE r \in S : \A o \in S \ {r} : UserBefore(r, o)
         IN  <<first>> \o SelectUsers([k \in DOMAIN tbl \ {first.id} |-> tbl[k]])

\* SELECT ... FROM images ORDER BY uploaded_at, uuid
RECURSIVE SelectImages(_)
SelectImages(tbl) ==
    IF DOMAIN tbl = {} THEN << >>
    ELSE LET S == Range(tbl)
             first == CHOOSE r \in S : \A o \in S \ {r} : ImageBefore(r, o)
         IN  <<first>> \o SelectImages([k \in DOMAIN tbl \ {first.uuid} |-> tbl[k]])

\* ------------------------------------------------------------ state, grouped

sourceVars == <<users, images>>

callVars == <<call, ret>>

runVars == <<config, now, run, pre, history>>

tableVars == <<tbl_user, tbl_image, tbl_image_aspect, committed>>

resourceVars == <<source_engine, target_engine, source_conn, target_conn, released>>

txVars == <<source_tx, target_tx>>

localVars == <<existing_ids, existing_uuids, known_user_ids, rows, payload, summary,
               flushed, users_summary, images_summary, warnings>>

vars == <<users, images, config, now, run, tbl_user, tbl_image, tbl_image_aspect,
          tbl_user_id_seq, committed, source_engine, target_engine, source_conn,
          target_conn, source_tx, target_tx, released, pc, exc, existing_ids,
          existing_uuids, known_user_ids, rows, payload, summary, flushed,
          users_summary, images_summary, warnings, result, pre, written, faults, history,
          call, ret>>

Tables == [tbl_user |-> tbl_user, tbl_image |-> tbl_image,
           tbl_image_aspect |-> tbl_image_aspect]

\* The whole target database: the durable tables and the sequence.
TargetDb == [tbl_user |-> committed.tbl_user, tbl_image |-> committed.tbl_image,
             tbl_image_aspect |-> committed.tbl_image_aspect,
             tbl_user_id_seq |-> tbl_user_id_seq]

NoneReleased == [source_engine |-> 0, target_engine |-> 0,
                 source_conn |-> 0, target_conn |-> 0]

\* The state run_merge starts in, whatever the databases hold.
FreshRun ==
    /\ source_engine = "none" /\ target_engine = "none"
    /\ source_conn = "none" /\ target_conn = "none"
    /\ source_tx = "none" /\ target_tx = "none"
    /\ released = NoneReleased
    /\ pc = "create_source_engine"
    /\ exc = None
    /\ existing_ids = {} /\ existing_uuids = {} /\ known_user_ids = {}
    /\ rows = << >> /\ payload = << >>
    /\ summary = MergeSectionResult
    /\ flushed = 0
    /\ users_summary = None /\ images_summary = None
    /\ warnings = << >>
    /\ result = None
    /\ written = {}
    /\ faults = << >>
    /\ call = None
    /\ ret = None

Init ==
    /\ users \in UserTables
    /\ images \in ImageTables
    /\ config \in [batch_size : 1..MaxBatch, dry_run : BOOLEAN]
    /\ now = 1
    /\ run = "first"
    /\ \E db \in TargetStates :
          /\ tbl_user = db.tbl_user
          /\ tbl_image = db.tbl_image
          /\ tbl_image_aspect = db.tbl_image_aspect
          /\ tbl_user_id_seq = db.tbl_user_id_seq
          /\ committed = [tbl_user |-> db.tbl_user, tbl_image |-> db.tbl_image,
                          tbl_image_aspect |-> db.tbl_image_aspect]
          /\ pre = db
    /\ history = << >>
    /\ FreshRun

\* ----------------------------------------------------- run_merge: acquiring

\* The call at raises an exception of the given type.
Raise(type, at) ==
    /\ exc' = Some([type |-> type, at |-> at])
    /\ faults' = Append(faults, at)

\* The locals of a merge whose frame is gone (it returned, or an exception
\* left it).
FrameDropped ==
    /\ existing_ids' = {} /\ existing_uuids' = {} /\ known_user_ids' = {}
    /\ rows' = << >> /\ payload' = << >>
    /\ summary' = MergeSectionResult
    /\ flushed' = 0

frameVars == <<existing_ids, existing_uuids, known_user_ids, rows, payload, summary,
               flushed>>

\* source_engine = _create_engine(config.source_url, name="source")
CreateSourceEngine ==
    /\ pc = "create_source_engine"
    /\ source_engine' = "created"
    /\ pc' = "create_target_engine"
    /\ UNCHANGED <<sourceVars, callVars, runVars, tableVars, tbl_user_id_seq, target_engine,
                   source_conn, target_conn, released, txVars, exc, localVars,
                   result, written, faults>>

\* create_engine raises (a malformed URL, a driver that is not installed):
\* nothing was created, the exception leaves run_merge.
CreateSourceEngineFails ==
    /\ pc = "create_source_engine"
    /\ Raise("create_engine", "create_source_engine")
    /\ pc' = "done"
    /\ UNCHANGED <<sourceVars, callVars, runVars, tableVars, tbl_user_id_seq, resourceVars,
                   txVars, localVars, result, written>>

\* target_engine = _create_engine(config.target_url, name="target")
CreateTargetEngine ==
    /\ pc = "create_target_engine"
    /\ target_engine' = "created"
    /\ pc' = "connect_source"
    /\ UNCHANGED <<sourceVars, callVars, runVars, tableVars, tbl_user_id_seq, source_engine,
                   source_conn, target_conn, released, txVars, exc, localVars,
                   result, written, faults>>

\* The second create_engine raises: the statement is before the try, so the
\* exception leaves run_merge at once.
CreateTargetEngineFails ==
    /\ pc = "create_target_engine"
    /\ Raise("create_engine", "create_target_engine")
    /\ pc' = "done"
    /\ UNCHANGED <<sourceVars, callVars, runVars, tableVars, tbl_user_id_seq, resourceVars,
                   txVars, localVars, result, written>>

\* with source_engine.connect() as source_conn
ConnectSource ==
    /\ pc = "connect_source"
    /\ source_conn' = "open"
    /\ pc' = "connect_target"
    /\ UNCHANGED <<sourceVars, callVars, runVars, tableVars, tbl_user_id_seq, source_engine,
                   target_engine, target_conn, released, txVars, exc, localVars,
                   result, written, faults>>

\* connect() raises inside the try: the finally block runs.
ConnectSourceFails ==
    /\ pc = "connect_source"
    /\ Raise("connect", "connect_source")
    /\ pc' = "dispose_source"
    /\ UNCHANGED <<sourceVars, callVars, runVars, tableVars, tbl_user_id_seq, resourceVars,
                   txVars, localVars, result, written>>

\* with ..., target_engine.connect() as target_conn
ConnectTarget ==
    /\ pc = "connect_target"
    /\ target_conn' = "open"
    /\ pc' = "begin_source"
    /\ UNCHANGED <<sourceVars, callVars, runVars, tableVars, tbl_user_id_seq, source_engine,
                   target_engine, source_conn, released, txVars, exc, localVars,
                   result, written, faults>>

\* The second connect() raises: the with statement closes source_conn.
ConnectTargetFails ==
    /\ pc = "connect_target"
    /\ Raise("connect", "connect_target")
    /\ pc' = "close_source"
    /\ UNCHANGED <<sourceVars, callVars, runVars, tableVars, tbl_user_id_seq, resourceVars,
                   txVars, localVars, result, written>>

\* source_tx = source_conn.begin()
BeginSource ==
    /\ pc = "begin_source"
    /\ source_tx' = "active"
    /\ pc' = "begin_target"
    /\ UNCHANGED <<sourceVars, callVars, runVars, tableVars, tbl_user_id_seq, resourceVars,
                   target_tx, exc, localVars, result, written, faults>>

\* target_tx = target_conn.begin()
BeginTarget ==
    /\ pc = "begin_target"
    /\ target_tx' = "active"
    /\ pc' = "users_collect"
    /\ UNCHANGED <<sourceVars, callVars, runVars, tableVars, tbl_user_id_seq, resourceVars,
                   source_tx, exc, localVars, result, written, faults>>

\* begin() raises: the statement is inside the with and outside the inner
\* try, so both connections are closed by the with statement.
BeginFails ==
    /\ pc \in {"begin_source", "begin_target"}
    /\ Raise("begin", pc)
    /\ pc' = "close_target"
    /\ UNCHANGED <<sourceVars, callVars, runVars, tableVars, tbl_user_id_seq, resourceVars,
                   txVars, localVars, result, written>>

\* --------------------------------------------------------------- merge_users

\* What no statement of a merge touches.
mergeFrame == <<sourceVars, callVars, runVars, resourceVars, txVars, result>>

\* summary = MergeSectionResult(); existing_ids = _collect_existing_ids(...)
UsersCollectExisting ==
    /\ pc = "users_collect"
    /\ summary' = MergeSectionResult
    /\ flushed' = 0
    /\ existing_ids' = _collect_existing_ids(tbl_user)
    /\ pc' = "users_select"
    /\ UNCHANGED <<mergeFrame, tableVars, tbl_user_id_seq, exc, existing_uuids,
                   known_user_ids, rows, payload, users_summary, images_summary,
                   warnings, written, faults>>

\* rows = source_conn.execute(stmt); payload = []
UsersSelect ==
    /\ pc = "users_select"
    /\ rows' = SelectUsers(users)
    /\ payload' = << >>
    /\ pc' = "users_loop"
    /\ UNCHANGED <<mergeFrame, tableVars, tbl_user_id_seq, exc, existing_ids,
                   existing_uuids, known_user_ids, summary, flushed, users_summary,
                   images_summary, warnings, written, faults>>

\* Faulty counters: every legacy user counts as inserted.
UserRowCountedAsInserted(row) ==
    [summary EXCEPT !.processed = @ + 1, !.inserted = @ + 1]

\* The counters after one more legacy user.
UserRowSummary(row) ==
    IF row.id \in existing_ids
    THEN [summary EXCEPT !.processed = @ + 1, !.updated = @ + 1]
    ELSE [summary EXCEPT !.processed = @ + 1, !.inserted = @ + 1]

\* The batch the next flush of merge_users would write.
UsersBatch ==
    IF rows # << >> THEN Append(payload, _adapt_user_row(Head(rows), now)) ELSE payload

\* One iteration of "for row in rows", its flush included.
UsersRow ==
    /\ pc = "users_loop"
    /\ rows # << >>
    /\ summary' = UserRowSummary(Head(rows))
    /\ existing_ids' = existing_ids \cup {Head(rows).id}
    /\ rows' = Tail(rows)
    /\ IF Len(UsersBatch) >= config.batch_size
       THEN /\ tbl_user' = _upsert_users(tbl_user, UsersBatch)
            /\ flushed' = flushed + Len(UsersBatch)
            /\ payload' = << >>
       ELSE /\ payload' = UsersBatch
            /\ UNCHANGED <<tbl_user, flushed>>
    /\ pc' = "users_loop"
    /\ UNCHANGED <<mergeFrame, tbl_image, tbl_image_aspect, committed,
                   tbl_user_id_seq, exc, existing_uuids, known_user_ids,
                   users_summary, images_summary, warnings, written, faults>>

\* A faulty end of the loop: the users still in payload are not flushed.
UsersLoopEndsUnflushed ==
    /\ pc = "users_loop"
    /\ rows = << >>
    /\ pc' = "users_sync"
    /\ UNCHANGED <<mergeFrame, tableVars, tbl_user_id_seq, exc, existing_ids,
                   existing_uuids, known_user_ids, rows, payload, summary, flushed,
                   users_summary, images_summary, warnings, written, faults>>

\* if payload: _upsert_users(target_conn, payload)
UsersFinalFlush ==
    /\ pc = "users_loop"
    /\ rows = << >>
    /\ tbl_user' = _upsert_users(tbl_user, payload)
    /\ flushed' = flushed + Len(payload)
    /\ pc' = "users_sync"
    /\ UNCHANGED <<mergeFrame, tbl_image, tbl_image_aspect, committed,
                   tbl_user_id_seq, exc, existing_ids, existing_uuids,
                   known_user_ids, rows, payload, summary, users_summary,
                   images_summary, warnings, written, faults>>

\* _sync_sequence(...); return summary.  The sequence is not transactional:
\* no rollback undoes the setval.
UsersSyncSequence ==
    /\ pc = "users_sync"
    /\ FrameDropped
    /\ IF _sync_sequence(tbl_user).ok
       THEN /\ tbl_user_id_seq' = _sync_sequence(tbl_user).seq
            /\ users_summary' = Some(summary)
            /\ pc' = "images_aspects"
            /\ UNCHANGED <<exc, faults>>
       ELSE /\ Raise(_sync_sequence(tbl_user).error, "merge_users")
            /\ pc' = "except_rollback_target"
            /\ UNCHANGED <<tbl_user_id_seq, users_summary>>
    /\ UNCHANGED <<mergeFrame, tableVars, images_summary, warnings, written>>

\* Whether merge_users calls _upsert_users next.
UsersFlushDue ==
    IF rows # << >> THEN Len(UsersBatch) >= config.batch_size ELSE payload # << >>

\* _upsert_users raises after writing k rows of its batch.
UsersFlushFails ==
    /\ pc = "users_loop"
    /\ UsersFlushDue
    /\ \E k \in 0..(Len(UsersBatch) - 1) :
          tbl_user' = _upsert_users(tbl_user, SubSeq(UsersBatch, 1, k))
    /\ Raise("db", "merge_users")
    /\ FrameDropped
    /\ pc' = "except_rollback_target"
    /\ UNCHANGED <<mergeFrame, tbl_image, tbl_image_aspect, committed,
                   tbl_user_id_seq, users_summary, images_summary, warnings,
                   written>>

\* -------------------------------------------------------------- merge_images

\* summary = MergeSectionResult(); ensure_required_aspects(target_conn)
EnsureRequiredAspects ==
    /\ pc = "images_aspects"
    /\ summary' = MergeSectionResult
    /\ flushed' = 0
    /\ tbl_image_aspect' = ensure_required_aspects(tbl_image_aspect)
    /\ pc' = "images_collect"
    /\ UNCHANGED <<mergeFrame, tbl_user, tbl_image, committed, tbl_user_id_seq, exc,
                   existing_ids, existing_uuids, known_user_ids, rows, payload,
                   users_summary, images_summary, warnings, written, faults>>

\* A faulty lookup: the known users are the ones committed before the run,
\* as another connection would see them.
ImagesCollectCommittedUsers ==
    /\ pc = "images_collect"
    /\ existing_uuids' = _collect_existing_ids(tbl_image)
    /\ known_user_ids' = _collect_existing_ids(committed.tbl_user)
    /\ pc' = "images_select"
    /\ UNCHANGED <<mergeFrame, tableVars, tbl_user_id_seq, exc, existing_ids, rows,
                   payload, summary, flushed, users_summary, images_summary,
                   warnings, written, faults>>

\* existing_uuids = _collect_existing_ids(target_conn, "tbl_image", "uuid")
\* known_user_ids = _collect_existing_ids(target_conn, "tbl_user")
ImagesCollectExisting ==
    /\ pc = "images_collect"
    /\ existing_uuids' = _collect_existing_ids(tbl_image)
    /\ known_user_ids' = _collect_existing_ids(tbl_user)
    /\ pc' = "images_select"
    /\ UNCHANGED <<mergeFrame, tableVars, tbl_user_id_seq, exc, existing_ids, rows,
                   payload, summary, flushed, users_summary, images_summary,
                   warnings, written, faults>>

\* rows = source_conn.execute(stmt); payload = []
ImagesSelect ==
    /\ pc = "images_select"
    /\ rows' = SelectImages(images)
    /\ payload' = << >>
    /\ pc' = "images_loop"
    /\ UNCHANGED <<mergeFrame, tableVars, tbl_user_id_seq, exc, existing_ids,
                   existing_uuids, known_user_ids, summary, flushed, users_summary,
                   images_summary, warnings, written, faults>>

\* Faulty row-level checks: the uploader is not looked up in the known ids.
RowCheckWithoutLookup(row, known) ==
    IF IsNone(row.uploaded_by)
    THEN [do |-> "skip", reason |-> "no uploader"]
    ELSE IF ~derive_aspect_id(row.kind).ok
    THEN [do |-> "skip", reason |-> derive_aspect_id(row.kind).error]
    ELSE [do |-> "accept", aspect_id |-> derive_aspect_id(row.kind).value]

\* Faulty row-level checks: UnknownAspectError is not caught.
RowCheckRaising(row, known) ==
    IF IsNone(row.uploaded_by)
    THEN [do |-> "skip", reason |-> "no uploader"]
    ELSE IF Val(row.uploaded_by) \notin known
    THEN [do |-> "skip", reason |-> "uploader missing in target"]
    ELSE IF ~derive_aspect_id(row.kind).ok
    THEN [do |-> "raise", reason |-> derive_aspect_id(row.kind).error]
    ELSE [do |-> "accept", aspect_id |-> derive_aspect_id(row.kind).value]

\* The row-level checks of merge_images, in the order the code makes them:
\* the row is skipped with a reason, accepted with its aspect, or the
\* check raises out of the loop.
ImageRowCheck(row, known) ==
    IF IsNone(row.uploaded_by)
    THEN [do |-> "skip", reason |-> "no uploader"]
    ELSE IF Val(row.uploaded_by) \notin known
    THEN [do |-> "skip", reason |-> "uploader missing in target"]
    ELSE IF ~derive_aspect_id(row.kind).ok
    THEN [do |-> "skip", reason |-> derive_aspect_id(row.kind).error]
    ELSE [do |-> "accept", aspect_id |-> derive_aspect_id(row.kind).value]

\* Faulty counters: a skipped image is processed but not counted as skipped.
ImageRowSkipNotCounted(row, check) ==
    IF check.do = "skip"
    THEN [summary EXCEPT !.processed = @ + 1]
    ELSE IF row.uuid \in existing_uuids
    THEN [summary EXCEPT !.processed = @ + 1, !.updated = @ + 1]
    ELSE [summary EXCEPT !.processed = @ + 1, !.inserted = @ + 1]

\* The counters after one more legacy image.
ImageRowSummary(row, check) ==
    IF check.do = "skip"
    THEN [summary EXCEPT !.processed = @ + 1, !.skipped = @ + 1]
    ELSE IF row.uuid \in existing_uuids
    THEN [summary EXCEPT !.processed = @ + 1, !.updated = @ + 1]
    ELSE [summary EXCEPT !.processed = @ + 1, !.inserted = @ + 1]

\* The batch the next flush of merge_images would write.
ImagesBatch ==
    IF rows = << >> THEN payload
    ELSE LET check == ImageRowCheck(Head(rows), known_user_ids)
         IN  IF check.do = "accept"
             THEN Append(payload, _adapt_image_row(Head(rows), check.aspect_id, now))
             ELSE payload

Uuids(batch) == {batch[i].uuid : i \in DOMAIN batch}

\* One iteration of "for row in rows", its flush included.
ImagesRow ==
    /\ pc = "images_loop"
    /\ rows # << >>
    /\ LET row == Head(rows)
           check == ImageRowCheck(row, known_user_ids)
       IN  IF check.do = "raise"
           THEN /\ Raise(check.reason, "merge_images")
                /\ FrameDropped
                /\ pc' = "except_rollback_target"
                /\ UNCHANGED <<tbl_image, users_summary, images_summary, warnings,
                               written>>
           ELSE /\ summary' = ImageRowSummary(row, check)
                /\ rows' = Tail(rows)
                /\ pc' = "images_loop"
                /\ UNCHANGED <<exc, faults, existing_ids, known_user_ids,
                               users_summary, images_summary>>
                /\ IF check.do = "skip"
                   THEN /\ warnings' = Append(warnings, <<row.uuid, check.reason>>)
                        /\ UNCHANGED <<tbl_image, existing_uuids, payload, flushed,
                                       written>>
                   ELSE /\ existing_uuids' = existing_uuids \cup {row.uuid}
                        /\ UNCHANGED warnings
                        /\ IF Len(ImagesBatch) >= config.batch_size
                           THEN /\ tbl_image' = _upsert_images(tbl_image, ImagesBatch)
                                /\ written' = written \cup Uuids(ImagesBatch)
                                /\ flushed' = flushed + Len(ImagesBatch)
                                /\ payload' = << >>
                           ELSE /\ payload' = ImagesBatch
                                /\ UNCHANGED <<tbl_image, written, flushed>>
    /\ UNCHANGED <<mergeFrame, tbl_user, tbl_image_aspect, committed,
                   tbl_user_id_seq>>

\* A faulty end of the loop: the rows still in payload are not flushed.
ImagesLoopEndsUnflushed ==
    /\ pc = "images_loop"
    /\ rows = << >>
    /\ pc' = "images_return"
    /\ UNCHANGED <<mergeFrame, tableVars, tbl_user_id_seq, exc, existing_ids,
                   existing_uuids, known_user_ids, rows, payload, summary, flushed,
                   users_summary, images_summary, warnings, written, faults>>

\* if payload: _upsert_images(target_conn, payload)
ImagesFinalFlush ==
    /\ pc = "images_loop"
    /\ rows = << >>
    /\ tbl_image' = _upsert_images(tbl_image, payload)
    /\ written' = written \cup Uuids(payload)
    /\ flushed' = flushed + Len(payload)
    /\ pc' = "images_return"
    /\ UNCHANGED <<mergeFrame, tbl_user, tbl_image_aspect, committed,
                   tbl_user_id_seq, exc, existing_ids, existing_uuids,
                   known_user_ids, rows, payload, summary, users_summary,
                   images_summary, warnings, faults>>

\* return summary
ImagesReturn ==
    /\ pc = "images_return"
    /\ images_summary' = Some(summary)
    /\ FrameDropped
    /\ pc' = "finish"
    /\ UNCHANGED <<mergeFrame, tableVars, tbl_user_id_seq, exc, users_summary,
                   warnings, written, faults>>

\* Whether merge_images calls _upsert_images next.
ImagesFlushDue ==
    IF rows # << >>
    THEN ImageRowCheck(Head(rows), known_user_ids).do = "accept"
         /\ Len(ImagesBatch) >= config.batch_size
    ELSE payload # << >>

\* _upsert_images raises after writing k rows of its batch.
ImagesFlushFails ==
    /\ pc = "images_loop"
    /\ ImagesFlushDue
    /\ \E k \in 0..(Len(ImagesBatch) - 1) :
          /\ tbl_image' = _upsert_images(tbl_image, SubSeq(ImagesBatch, 1, k))
          /\ written' = written \cup Uuids(SubSeq(ImagesBatch, 1, k))
    /\ Raise("db", "merge_images")
    /\ FrameDropped
    /\ pc' = "except_rollback_target"
    /\ UNCHANGED <<mergeFrame, tbl_user, tbl_image_aspect, committed,
                   tbl_user_id_seq, users_summary, images_summary, warnings>>

\* The statements of the merges that talk to a database without writing a
\* table: any of them may raise.
MergeQueryPcs == {"users_collect", "users_select", "users_loop", "users_sync",
                  "images_aspects", "images_collect", "images_select", "images_loop"}

UsersPcs == {"users_collect", "users_select", "users_loop", "users_sync"}

MergeQueryFails ==
    /\ pc \in MergeQueryPcs
    /\ Raise("db", IF pc \in UsersPcs THEN "merge_users" ELSE "merge_images")
    /\ FrameDropped
    /\ pc' = "except_rollback_target"
    /\ UNCHANGED <<mergeFrame, tableVars, tbl_user_id_seq, users_summary,
                   images_summary, warnings, written>>

\* ---------------------------------------------- run_merge: commit, rollback

\* ROLLBACK on the target: the session sees the committed tables again.
RolledBackTarget ==
    /\ target_tx' = "rolled_back"
    /\ tbl_user' = committed.tbl_user
    /\ tbl_image' = committed.tbl_image
    /\ tbl_image_aspect' = committed.tbl_image_aspect
    /\ UNCHANGED committed

\* COMMIT on the target: what the session sees becomes durable.
CommittedTarget ==
    /\ target_tx' = "committed"
    /\ committed' = Tables
    /\ UNCHANGED <<tbl_user, tbl_image, tbl_image_aspect>>

\* What neither a commit nor a rollback touches.
endFrame == <<sourceVars, callVars, runVars, tbl_user_id_seq, resourceVars, localVars, result,
              written>>

\* A faulty except block: the target transaction is committed.
ExceptCommitTarget ==
    /\ pc = "except_rollback_target"
    /\ CommittedTarget
    /\ pc' = "except_rollback_source"
    /\ UNCHANGED <<endFrame, source_tx, exc, faults>>

\* except Exception: target_tx.rollback()
ExceptRollbackTarget ==
    /\ pc = "except_rollback_target"
    /\ RolledBackTarget
    /\ pc' = "except_rollback_source"
    /\ UNCHANGED <<endFrame, source_tx, exc, faults>>

\* source_tx.rollback(); raise
ExceptRollbackSource ==
    /\ pc = "except_rollback_source"
    /\ source_tx' = "rolled_back"
    /\ pc' = "close_target"
    /\ UNCHANGED <<endFrame, tableVars, target_tx, exc, faults>>

\* else: if config.dry_run: target_tx.rollback()
DryRunRollbackTarget ==
    /\ pc = "finish"
    /\ config.dry_run
    /\ RolledBackTarget
    /\ pc' = "dry_rollback_source"
    /\ UNCHANGED <<endFrame, source_tx, exc, faults>>

\* source_tx.rollback()
DryRunRollbackSource ==
    /\ pc = "dry_rollback_source"
    /\ source_tx' = "rolled_back"
    /\ pc' = "close_target"
    /\ UNCHANGED <<endFrame, tableVars, target_tx, exc, faults>>

\* else: target_tx.commit()
CommitTarget ==
    /\ pc = "finish"
    /\ ~config.dry_run
    /\ CommittedTarget
    /\ pc' = "commit_source"
    /\ UNCHANGED <<endFrame, source_tx, exc, faults>>

\* source_tx.commit()
CommitSource ==
    /\ pc = "commit_source"
    /\ source_tx' = "committed"
    /\ pc' = "close_target"
    /\ UNCHANGED <<endFrame, tableVars, target_tx, exc, faults>>

\* The statement a commit or rollback call is made at, for each place.
EndCall ==
    [p \in {"except_rollback_target", "except_rollback_source", "finish",
            "dry_rollback_source", "commit_source"} |->
        IF p = "finish"
        THEN (IF config.dry_run THEN "target_tx.rollback" ELSE "target_tx.commit")
        ELSE IF p = "except_rollback_target" THEN "target_tx.rollback"
        ELSE IF p = "commit_source" THEN "source_tx.commit"
        ELSE "source_tx.rollback"]

\* A commit or rollback call raises and leaves its transaction as it was:
\* the exception leaves the with statement, which closes the connections.
EndCallFails ==
    /\ pc \in DOMAIN EndCall
    /\ Raise("db", EndCall[pc])
    /\ pc' = "close_target"
    /\ UNCHANGED <<endFrame, tableVars, txVars>>

\* ------------------------------------------------------ run_merge: releasing

\* Leaving the with statement: target_conn is closed; closing a connection
\* rolls back the transaction still active on it.
CloseTargetConn ==
    /\ pc = "close_target"
    /\ target_conn' = "closed"
    /\ released' = [released EXCEPT !.target_conn = @ + 1]
    /\ IF target_tx = "active"
       THEN RolledBackTarget
       ELSE UNCHANGED <<tableVars, target_tx>>
    /\ pc' = "close_source"
    /\ UNCHANGED <<sourceVars, callVars, runVars, tbl_user_id_seq, source_engine,
                   target_engine, source_conn, source_tx, exc, localVars, result,
                   written, faults>>

\* Leaving the with statement: source_conn is closed.
CloseSourceConn ==
    /\ pc = "close_source"
    /\ source_conn' = "closed"
    /\ released' = [released EXCEPT !.source_conn = @ + 1]
    /\ source_tx' = IF source_tx = "active" THEN "rolled_back" ELSE source_tx
    /\ pc' = "dispose_source"
    /\ UNCHANGED <<sourceVars, callVars, runVars, tableVars, tbl_user_id_seq, source_engine,
                   target_engine, target_conn, target_tx, exc, localVars, result,
                   written, faults>>

\* finally: source_engine.dispose()
DisposeSource ==
    /\ pc = "dispose_source"
    /\ source_engine' = "disposed"
    /\ released' = [released EXCEPT !.source_engine = @ + 1]
    /\ pc' = "dispose_target"
    /\ UNCHANGED <<sourceVars, callVars, runVars, tableVars, tbl_user_id_seq, target_engine,
                   source_conn, target_conn, txVars, exc, localVars, result,
                   written, faults>>

\* target_engine.dispose(); then the pending exception propagates, or
\* return MergeResult(users=users_summary, images=images_summary)
DisposeTarget ==
    /\ pc = "dispose_target"
    /\ target_engine' = "disposed"
    /\ released' = [released EXCEPT !.target_engine = @ + 1]
    /\ result' = IF IsNone(exc)
                 THEN Some([users |-> Val(users_summary),
                            images |-> Val(images_summary)])
                 ELSE None
    /\ pc' = "done"
    /\ UNCHANGED <<sourceVars, callVars, runVars, tableVars, tbl_user_id_seq, source_engine,
                   source_conn, target_conn, txVars, exc, localVars, written,
                   faults>>

\* ------------------------------------------------------------- specification

\* The statements of a run in which no call raises unless its input makes it.
Clean ==
    \/ CreateSourceEngine \/ CreateTargetEngine
    \/ ConnectSource \/ ConnectTarget
    \/ BeginSource \/ BeginTarget
    \/ UsersCollectExisting \/ UsersSelect \/ UsersRow \/ UsersFinalFlush
    \/ UsersSyncSequence
    \/ EnsureRequiredAspects \/ ImagesCollectExisting \/ ImagesSelect
    \/ ImagesRow \/ ImagesFinalFlush \/ ImagesReturn
    \/ DryRunRollbackTarget \/ DryRunRollbackSource
    \/ CommitTarget \/ CommitSource
    \/ CloseTargetConn \/ CloseSourceConn
    \/ DisposeSource \/ DisposeTarget

\* The except block of run_merge.
Handler == ExceptRollbackTarget \/ ExceptRollbackSource

\* A call raises.
Fault ==
    \/ CreateSourceEngineFails \/ CreateTargetEngineFails
    \/ ConnectSourceFails \/ ConnectTargetFails
    \/ BeginFails
    \/ MergeQueryFails \/ UsersFlushFails \/ ImagesFlushFails
    \/ EndCallFails

Next == Clean \/ Handler \/ Fault

\* One run_merge invocation in which any call may raise.
Spec == Init /\ [][Next]_vars

\* What a finished run leaves for the record.
RunRecord == [dry_run |-> config.dry_run, pre |-> pre, post |-> TargetDb,
              result |-> result]

\* run_merge is invoked again on the same two databases, with the same
\* batch size, dry-run or not; the clock has not gone back.
NextRun ==
    /\ pc = "done"
    /\ run = "first"
    /\ run' = "second"
    /\ history' = Append(history, RunRecord)
    /\ config' \in {[config EXCEPT !.dry_run = d] : d \in BOOLEAN}
    /\ now' \in {now, now + 1}
    /\ pre' = TargetDb
    /\ source_engine' = "none" /\ target_engine' = "none"
    /\ source_conn' = "none" /\ target_conn' = "none"
    /\ source_tx' = "none" /\ target_tx' = "none"
    /\ released' = NoneReleased
    /\ pc' = "create_source_engine"
    /\ exc' = None
    /\ FrameDropped
    /\ users_summary' = None /\ images_summary' = None
    /\ warnings' = << >>
    /\ result' = None
    /\ written' = {}
    /\ faults' = << >>
    /\ UNCHANGED <<sourceVars, callVars, tableVars, tbl_user_id_seq>>

NextTwice == Clean \/ Handler \/ NextRun

\* Two run_merge invocations in succession in which no call raises unless
\* its input makes it.
SpecTwice == Init /\ [][NextTwice]_vars

\* The start of a run on which batch sizes are compared: more rows than the
\* smaller batch sizes hold.
InitBatch ==
    /\ users \in BatchUserTables
    /\ images \in BatchImageTables
    /\ config \in [batch_size : 1..MaxRows, dry_run : BOOLEAN]
    /\ now = 1
    /\ run = "first"
    /\ \E db \in BatchTargetStates :
          /\ tbl_user = db.tbl_user
          /\ tbl_image = db.tbl_image
          /\ tbl_image_aspect = db.tbl_image_aspect
          /\ tbl_user_id_seq = db.tbl_user_id_seq
          /\ committed = [tbl_user |-> db.tbl_user, tbl_image |-> db.tbl_image,
                          tbl_image_aspect |-> db.tbl_image_aspect]
          /\ pre = db
    /\ history = << >>
    /\ FreshRun

NextBatch == Clean \/ Handler

\* One run_merge invocation in which no call raises unless its input makes
\* it, on sources of up to MaxRows rows with every batch size up to MaxRows.
SpecBatch == InitBatch /\ [][NextBatch]_vars

\* ------------------------------------------- functions called on their own

\* Every spelling of a string in upper- and lower-case letters.
RECURSIVE CaseVariants(_)
CaseVariants(s) ==
    IF s = << >> THEN {<< >>}
    ELSE {<<c>> \o rest : c \in {UpperChar(Head(s)), LowerChar(Head(s))},
                          rest \in CaseVariants(Tail(s))}

\* Strings that are no kind of the mapping: empty, blank, another word, a
\* mapped kind with a character more, less or around it.
UnmappedKinds ==
    {<< >>, <<" ">>, STICKER, Lower(STICKER), MASK \o <<"S">>, <<" ">> \o MASK,
     MASK \o <<" ">>, SubSeq(MASK, 1, 3), Lower(FRAME) \o <<"-", "1">>,
     BACKGROUND \o PASSNAME}

\* The arguments derive_aspect_id is called with: no kind, every spelling of
\* every mapped kind, and the unmapped strings.
KindArgs ==
    {None} \cup {Some(k) : k \in UNION {CaseVariants(m) : m \in DOMAIN _KIND_TO_ASPECT}
                                 \cup UnmappedKinds}

\* The kinds the builders are called with.
BuilderKinds ==
    {None, Some(<< >>), Some(<<" ">>), Some(BACKGROUND), Some(Lower(PASSNAME)),
     Some(<<"F","r","a","m","e">>), Some(STICKER),
     Some(<<"c","a","r","d"," ","b","G">>)}

\* The labels and categories the builders are called with: null, empty,
\* blank, and non-blank with and without blanks around.
TextArgs ==
    {None, Some(<< >>), Some(<<" ">>), Some(<<" ", "\t", "\n">>),
     Some(<<" ","E","v","e","n","t"," ">>), Some(<<"H","i">>),
     Some(<<"\t","a"," ","B">>)}

\* The row of test_adapt_image_row_assigns_user_and_visibility: it has no
\* uploaded_by.
TestImageRow ==
    [uuid |-> Uuid(1), kind |-> Some(BACKGROUND), label |-> None,
     file_name |-> "legacy.png", uploaded_at |-> Some(Naive(1)), category |-> None,
     trace_id |-> Some("trace")]

\* The positional arguments _adapt_image_row is called with: a row and an
\* aspect id as merge_images passes them, and a row, an aspect id, a user id
\* and a visibility as the test passes them.
AdaptArgs ==
    LET fullRows == UNION {ImageVariants(k) : k \in 1..2}
        given == {row \in fullRows : ~IsNone(row.uploaded_by)} \cup {TestImageRow}
    IN  UNION { {<<row, aspect_id>>, <<row, aspect_id, 42, 1>>,
                 <<row, aspect_id, OrganicOnlyId, 0>>} :
                row \in given, aspect_id \in {CardBackground, SegaPassname} }

\* The attributes _adapt_image_row reads from its row.
ImageRowAttributes ==
    {"uuid", "kind", "label", "file_name", "uploaded_by", "uploaded_at", "category",
     "trace_id"}

\* The call _adapt_image_row(*args): the function has the two parameters
\* row and aspect_id, and reads the attributes of row.
Call_adapt_image_row(args, utcnow) ==
    IF Len(args) # 2 THEN [ok |-> FALSE, error |-> "TypeError"]
    ELSE IF ~(ImageRowAttributes \subseteq DOMAIN args[1])
    THEN [ok |-> FALSE, error |-> "AttributeError"]
    ELSE [ok |-> TRUE, value |-> _adapt_image_row(args[1], args[2], utcnow)]

Returned(value) == [ok |-> TRUE, value |-> value]

programVars == <<sourceVars, runVars, tableVars, tbl_user_id_seq, resourceVars, txVars,
                 localVars, pc, exc, result, written, faults>>

\* derive_aspect_id(kind)
CallDeriveAspectId ==
    /\ IsNone(call)
    /\ \E kind \in KindArgs :
          /\ call' = Some([fn |-> "derive_aspect_id", args |-> <<kind>>])
          /\ ret' = Some(derive_aspect_id(kind))
    /\ UNCHANGED programVars

\* build_image_labels(kind, category)
CallBuildImageLabels ==
    /\ IsNone(call)
    /\ \E kind \in BuilderKinds, category \in TextArgs :
          /\ call' = Some([fn |-> "build_image_labels", args |-> <<kind, category>>])
          /\ ret' = Some(Returned(build_image_labels(kind, category)))
    /\ UNCHANGED programVars

\* build_image_description(label, category, kind)
CallBuildImageDescription ==
    /\ IsNone(call)
    /\ \E label \in TextArgs, category \in TextArgs, kind \in BuilderKinds :
          /\ call' = Some([fn |-> "build_image_description",
                           args |-> <<label, category, kind>>])
          /\ ret' = Some(Returned(build_image_description(label, category, kind)))
    /\ UNCHANGED programVars

\* _adapt_image_row(*args)
CallAdaptImageRow ==
    /\ IsNone(call)
    /\ \E args \in AdaptArgs :
          /\ call' = Some([fn |-> "_adapt_image_row", args |-> args])
          /\ ret' = Some(Call_adapt_image_row(args, now))
    /\ UNCHANGED programVars

\* No run_merge is under way: the functions are called on their own.
InitTransform ==
    /\ users = EmptyTable
    /\ images = EmptyTable
    /\ config = [batch_size |-> 1, dry_run |-> FALSE]
    /\ now = 1
    /\ run = "first"
    /\ tbl_user = EmptyTable
    /\ tbl_image = EmptyTable
    /\ tbl_image_aspect = EmptyTable
    /\ tbl_user_id_seq = [last_value |-> 1, is_called |-> FALSE]
    /\ committed = [tbl_user |-> EmptyTable, tbl_image |-> EmptyTable,
                    tbl_image_aspect |-> EmptyTable]
    /\ pre = [tbl_user |-> EmptyTable, tbl_image |-> EmptyTable,
              tbl_image_aspect |-> EmptyTable,
              tbl_user_id_seq |-> [last_value |-> 1, is_called |-> FALSE]]
    /\ history = << >>
    /\ FreshRun

NextTransform ==
    \/ CallDeriveAspectId
    \/ CallBuildImageLabels
    \/ CallBuildImageDescription
    \/ CallAdaptImageRow

\* One call of a transform function or of _adapt_image_row, on arguments of
\* the pools above.
SpecTransform == InitTransform /\ [][NextTransform]_vars

\* -------------------------------------------------------------------- claims

Terminal == pc = "done"

PreTables == [tbl_user |-> pre.tbl_user, tbl_image |-> pre.tbl_image,
              tbl_image_aspect |-> pre.tbl_image_aspect]

MergeRaised == faults # << >> /\ faults[1] \in {"merge_users", "merge_images"}

\* The image rows of this run that are in the target: those it flushed,
\* unless its transaction was rolled back.
RunImages == IF target_tx \in {"active", "committed"} THEN written ELSE {}

\* C1 as stated: if merge_users or merge_images raises once both
\* transactions are open, then when run_merge hands control back the target
\* tables are what they were before the run, durably and as a session sees
\* them, nothing is returned, and the exception of the merge is the one
\* that reaches the caller.
C1_MergeFailureReraised ==
    (Terminal /\ MergeRaised) =>
        /\ committed = PreTables
        /\ Tables = PreTables
        /\ IsNone(result)
        /\ ~IsNone(exc)
        /\ Val(exc).at = faults[1]

\* C1 as amended: if merge_users or merge_images raises once both
\* transactions are open, then when run_merge hands control back the target
\* tables are what they were before the run, durably and as a session sees
\* them, nothing is returned and an exception reaches the caller: the one
\* of the merge unless a rollback call of the except block raised after it,
\* and then the one of that rollback call.
C1_MergeFailureRollsBack ==
    (Terminal /\ MergeRaised) =>
        /\ committed = PreTables
        /\ Tables = PreTables
        /\ IsNone(result)
        /\ ~IsNone(exc)
        /\ Val(exc).at = faults[Len(faults)]
        /\ Len(faults) > 1 =>
              \A i \in 2..Len(faults) :
                  faults[i] \in {"target_tx.rollback", "source_tx.rollback"}

\* A run whose image merge raised after users and images were flushed.
C1_Witness ==
    /\ Terminal
    /\ faults = <<"merge_images">>
    /\ written # {}
    /\ DOMAIN users # {}
    /\ 1 \notin DOMAIN pre.tbl_user

\* C2: after a dry run that completes without error the whole target
\* database, the sequence behind tbl_user.id included, is what it was
\* before the run.
C2_DryRunLeavesTargetUnchanged ==
    (Terminal /\ config.dry_run /\ IsNone(exc)) => TargetDb = pre

\* C6: every run that opened both transactions ends with both committed
\* or both rolled back, also when a commit or rollback call raises.
C6_NoPartialCommit ==
    (Terminal /\ source_tx # "none" /\ target_tx # "none") =>
        ((target_tx = "committed") <=> (source_tx = "committed"))

Acquired ==
    [source_engine |-> source_engine # "none", target_engine |-> target_engine # "none",
     source_conn |-> source_conn # "none", target_conn |-> target_conn # "none"]

\* C8: on every exit path each engine and connection that was created or
\* opened has been released exactly once when run_merge hands control back.
C8_ReleasedExactlyOnce ==
    Terminal =>
        \A r \in DOMAIN released : released[r] = IF Acquired[r] THEN 1 ELSE 0

\* C3: a dry run returns the counters a real run returns from the same
\* source, the same target tables and the same batch size.
C3_DryRunCountsLikeRealRun ==
    (/\ Terminal /\ run = "second"
     /\ history[1].dry_run /\ ~config.dry_run
     /\ ~IsNone(history[1].result) /\ ~IsNone(result)
     /\ [t \in DOMAIN PreTables |-> history[1].pre[t]] = PreTables)
        => result = history[1].result

\* A dry run then a real run, in which users and images were migrated and
\* an image was skipped.
C3_Witness ==
    /\ Terminal /\ run = "second"
    /\ history[1].dry_run /\ ~config.dry_run
    /\ ~IsNone(history[1].result) /\ ~IsNone(result)
    /\ Val(result).users.inserted > 0
    /\ Val(result).images.inserted > 0
    /\ Val(result).images.skipped > 0

\* Two real runs in succession that both returned.
TwoRealRuns ==
    /\ Terminal /\ run = "second"
    /\ ~history[1].dry_run /\ ~config.dry_run
    /\ ~IsNone(history[1].result) /\ ~IsNone(result)

\* The second run inserted nothing: every row it did not skip is an update.
NothingNew(section) ==
    /\ section.inserted = 0
    /\ section.updated = section.processed - section.skipped

\* C4 as stated: the second of two real runs on the same source leaves the
\* target exactly as the first left it and reports no insert.
C4_SecondRunChangesNothing ==
    TwoRealRuns =>
        /\ TargetDb = history[1].post
        /\ NothingNew(Val(result).users)
        /\ NothingNew(Val(result).images)

WithoutUpdatedAt(tbl) == [k \in DOMAIN tbl |-> [tbl[k] EXCEPT !.updated_at = None]]

\* C4 as amended: the second run leaves the target as the first left it in
\* everything but updated_at, which is the second run's time in exactly
\* the rows the run wrote again, and it reports no insert.
C4_SecondRunChangesOnlyUpdatedAt ==
    TwoRealRuns =>
        LET first == history[1].post
        IN  /\ tbl_user_id_seq = first.tbl_user_id_seq
            /\ committed.tbl_image_aspect = first.tbl_image_aspect
            /\ WithoutUpdatedAt(committed.tbl_user) = WithoutUpdatedAt(first.tbl_user)
            /\ WithoutUpdatedAt(committed.tbl_image) = WithoutUpdatedAt(first.tbl_image)
            /\ \A k \in DOMAIN committed.tbl_user :
                  committed.tbl_user[k].updated_at =
                      IF k \in DOMAIN users THEN Naive(now)
                      ELSE first.tbl_user[k].updated_at
            /\ \A k \in DOMAIN committed.tbl_image :
                  committed.tbl_image[k].updated_at =
                      IF k \in written THEN Naive(now)
                      ELSE first.tbl_image[k].updated_at
            /\ NothingNew(Val(result).users)
            /\ NothingNew(Val(result).images)

\* Two real runs at different times that wrote users and images, one of
\* them with no creation time in the source.
C4_Witness ==
    /\ TwoRealRuns
    /\ now > 1
    /\ written # {}
    /\ Val(result).users.updated > 0
    /\ Val(result).images.skipped > 0
    /\ \E k \in DOMAIN users : IsNone(users[k].created_at)

\* merge_images is in or past its loop and has not returned yet.
InImageLoop == pc \in {"images_loop", "images_return"}

\* The legacy images the loop of merge_images has dealt with so far.
ImagesDone == Range(images) \ Range(rows)

\* The warnings merge_images logged for an image.
WarningsFor(uuid) == {i \in DOMAIN warnings : warnings[i][1] = uuid}

\* The uploader of a legacy image is no row of tbl_user.
OwnerMissing(row) ==
    \/ IsNone(row.uploaded_by)
    \/ Val(row.uploaded_by) \notin DOMAIN tbl_user

\* C5: every image row the run has written refers to a user that tbl_user
\* holds at that moment; a legacy image whose uploader is not in tbl_user
\* after the user merge is in no batch and no flush, and adds exactly one
\* to the skipped counter.
C5_WrittenImagesHaveOwner ==
    /\ \A u \in RunImages :
          /\ u \in DOMAIN tbl_image
          /\ tbl_image[u].user_id \in DOMAIN tbl_user
    /\ InImageLoop =>
          /\ \A row \in ImagesDone :
                OwnerMissing(row) =>
                    /\ row.uuid \notin written \cup Uuids(payload)
                    /\ Cardinality(WarningsFor(row.uuid)) = 1
          /\ summary.skipped = Len(warnings)

\* The loop is over: an image was written for a migrated user and another
\* was skipped because its uploader is in neither database.
C5_Witness ==
    /\ pc = "images_return"
    /\ written # {}
    /\ \E u \in written : tbl_image[u].user_id \notin DOMAIN pre.tbl_user
    /\ \E i \in DOMAIN warnings : warnings[i][2] = "uploader missing in target"

\* The first row-level check a legacy image fails, in the order of the
\* code, or none.
FirstFailure(row) ==
    IF IsNone(row.uploaded_by) THEN Some("no uploader")
    ELSE IF Val(row.uploaded_by) \notin DOMAIN tbl_user
    THEN Some("uploader missing in target")
    ELSE IF ~derive_aspect_id(row.kind).ok THEN Some("UnknownAspectError")
    ELSE None

\* The number of row-level checks a legacy image fails.
Failures(row) ==
    (IF OwnerMissing(row) THEN 1 ELSE 0)
    + (IF ~derive_aspect_id(row.kind).ok THEN 1 ELSE 0)

\* C9: a legacy image that fails a row-level check is counted as skipped
\* once, with the reason of the first check it fails, is in no batch and
\* no flush, raises nothing out of merge_images, and the loop goes on to
\* the last row.
C9_RowFailuresAreSkippedOnce ==
    /\ ~IsNone(exc) => Val(exc).type # "UnknownAspectError"
    /\ InImageLoop =>
          /\ summary.processed = Cardinality(ImagesDone)
          /\ summary.skipped =
                 Cardinality({row \in ImagesDone : ~IsNone(FirstFailure(row))})
          /\ Len(warnings) = summary.skipped
          /\ \A row \in ImagesDone :
                IF IsNone(FirstFailure(row))
                THEN WarningsFor(row.uuid) = {}
                ELSE /\ \E i \in DOMAIN warnings :
                           /\ WarningsFor(row.uuid) = {i}
                           /\ warnings[i][2] = Val(FirstFailure(row))
                     /\ row.uuid \notin written \cup Uuids(payload)
    /\ pc = "images_return" => summary.processed = Cardinality(DOMAIN images)

\* The loop is over: its first image failed two checks and a later one
\* was written.
C9_Witness ==
    /\ pc = "images_return"
    /\ DOMAIN images # {}
    /\ Failures(SelectImages(images)[1]) = 2
    /\ written # {}
    /\ summary.skipped = 1

\* The image merge has ensured the seed aspects and its transaction is open.
AspectsEnsured ==
    /\ pc \in {"images_collect", "images_select", "images_loop", "images_return",
               "finish"}
    /\ target_tx = "active"

\* C10: from ensure_required_aspects on both seed rows are in
\* tbl_image_aspect, so before any image row is written; every image row
\* the run writes has one of the two seed ids as its aspect; and
\* ensure_required_aspects adds the missing seed rows, with the fixed
\* values, and changes no row that was there.
C10_SeedAspectsBeforeImages ==
    /\ \A u \in RunImages :
          /\ tbl_image[u].aspect_id \in {CardBackground, SegaPassname}
          /\ {CardBackground, SegaPassname} \subseteq DOMAIN tbl_image_aspect
    /\ AspectsEnsured =>
          /\ DOMAIN tbl_image_aspect =
                 DOMAIN pre.tbl_image_aspect \cup {CardBackground, SegaPassname}
          /\ \A a \in DOMAIN tbl_image_aspect :
                tbl_image_aspect[a] =
                    (IF a \in DOMAIN pre.tbl_image_aspect
                     THEN pre.tbl_image_aspect[a] ELSE RequiredAspects[a])

\* The loop is over: the target had a hand-edited card row and no passname
\* row, and an image of each aspect was written.
C10_Witness ==
    /\ pc = "images_return"
    /\ DOMAIN pre.tbl_image_aspect = {CardBackground}
    /\ pre.tbl_image_aspect[CardBackground] # RequiredAspects[CardBackground]
    /\ {tbl_image[u].aspect_id : u \in written} = {CardBackground, SegaPassname}

\* The records merge_users builds, in the order of its SELECT.
UserEntries ==
    LET selected == SelectUsers(users)
    IN  [i \in DOMAIN selected |-> _adapt_user_row(selected[i], now)]

\* tbl_user once every legacy user is upserted, one row at a time.
UsersMerged == _upsert_users(pre.tbl_user, UserEntries)

\* The legacy images that pass the row-level checks against the known ids.
AcceptedImages(known) ==
    SelectSeq(SelectImages(images),
              LAMBDA row : /\ ~IsNone(row.uploaded_by)
                           /\ Val(row.uploaded_by) \in known
                           /\ derive_aspect_id(row.kind).ok)

\* The records merge_images builds for the accepted images.
ImageEntries(accepted) ==
    [i \in DOMAIN accepted |->
        _adapt_image_row(accepted[i], derive_aspect_id(accepted[i].kind).value, now)]

\* The counters of a merge of n rows whose accepted keys are keys and whose
\* table held the keys had before.
CountersOf(n, keys, had) ==
    [processed |-> n,
     inserted  |-> Cardinality(keys \ had),
     updated   |-> Cardinality(keys \cap had),
     skipped   |-> n - Cardinality(keys)]

\* C11: whatever the batch size, when merge_users has made its last flush
\* tbl_user is the pre-run table with every legacy user upserted and all of
\* them are flushed; when merge_images has made its last flush tbl_image is
\* the pre-run table with every accepted image upserted and all of them are
\* flushed; the counters of both merges and what a committed run leaves in
\* the target are functions of the source and the pre-run target alone.
C11_BatchSizeDoesNotMatter ==
    (pc \in {"users_sync", "images_return"} \/ (Terminal /\ IsNone(exc))) =>
        LET usersMerged == UsersMerged
            entries == ImageEntries(AcceptedImages(DOMAIN usersMerged))
            imagesMerged == _upsert_images(pre.tbl_image, entries)
            usersCounters == CountersOf(Cardinality(DOMAIN users), DOMAIN users,
                                        DOMAIN pre.tbl_user)
            imagesCounters == CountersOf(Cardinality(DOMAIN images), Uuids(entries),
                                         DOMAIN pre.tbl_image)
        IN  /\ pc = "users_sync" =>
                  /\ tbl_user = usersMerged
                  /\ summary = usersCounters
                  /\ flushed = Cardinality(DOMAIN users)
            /\ pc = "images_return" =>
                  /\ tbl_user = usersMerged
                  /\ tbl_image = imagesMerged
                  /\ summary = imagesCounters
                  /\ flushed = Len(entries)
                  /\ written = Uuids(entries)
            /\ Terminal =>
                  /\ result = Some([users |-> usersCounters, images |-> imagesCounters])
                  /\ ~config.dry_run =>
                        /\ committed.tbl_user = usersMerged
                        /\ committed.tbl_image = imagesMerged
                        /\ committed.tbl_image_aspect =
                               ensure_required_aspects(pre.tbl_image_aspect)

\* A committed run with a batch size of two that flushed three users and
\* three images: a full batch in the loop and a remainder after it.
C11_Witness ==
    /\ Terminal /\ IsNone(exc) /\ ~config.dry_run
    /\ config.batch_size = 2
    /\ Cardinality(DOMAIN users) = 3
    /\ Cardinality(written) = 3

\* The statements of merge_images.
ImagesPcs == {"images_aspects", "images_collect", "images_select", "images_loop",
              "images_return"}

\* merge_users has returned: every legacy user is in tbl_user and the
\* sequence is where _sync_sequence puts it.
UsersMergeDone ==
    /\ ~IsNone(users_summary)
    /\ DOMAIN users \subseteq DOMAIN tbl_user
    /\ _sync_sequence(tbl_user).ok
    /\ tbl_user_id_seq = _sync_sequence(tbl_user).seq

\* Nothing of merge_images has happened in this run: no seed row, no
\* membership set, no legacy image read, skipped or written.
NoImageStepYet ==
    /\ tbl_image_aspect = pre.tbl_image_aspect
    /\ tbl_image = pre.tbl_image
    /\ existing_uuids = {} /\ known_user_ids = {}
    /\ warnings = << >>
    /\ written = {}
    /\ IsNone(images_summary)

\* C12: while merge_images runs, merge_users has returned, with every
\* legacy user flushed and the sequence synchronised; and as long as
\* merge_users has not returned no step of merge_images has been taken.
C12_UsersBeforeImages ==
    /\ pc \in ImagesPcs => UsersMergeDone
    /\ IsNone(users_summary) => NoImageStepYet

\* merge_images has written an image of a user that merge_users inserted
\* with its last flush.
C12_Witness ==
    /\ pc = "images_loop"
    /\ written # {}
    /\ config.batch_size > Cardinality(DOMAIN users)
    /\ \E u \in written : tbl_image[u].user_id \notin DOMAIN pre.tbl_user

\* C13: the counters merge_users returns: processed is the number of
\* legacy users, skipped is 0, inserted is the number of legacy ids that
\* tbl_user did not hold before the run and updated the number it held;
\* inserted is also the number of rows tbl_user has grown by.
C13_UserCounters ==
    ~IsNone(users_summary) =>
        LET counters == Val(users_summary)
        IN  /\ counters.processed = Cardinality(DOMAIN users)
            /\ counters.skipped = 0
            /\ counters.inserted = Cardinality(DOMAIN users \ DOMAIN pre.tbl_user)
            /\ counters.updated = Cardinality(DOMAIN users \cap DOMAIN pre.tbl_user)
            /\ target_tx \in {"active", "committed"} =>
                  counters.inserted = Cardinality(DOMAIN tbl_user)
                                      - Cardinality(DOMAIN pre.tbl_user)
            /\ (Terminal /\ ~IsNone(result)) => Val(result).users = counters

\* A committed run that inserted one legacy user and updated another.
C13_Witness ==
    /\ Terminal /\ ~IsNone(result) /\ target_tx = "committed"
    /\ Val(result).users.inserted = 1
    /\ Val(result).users.updated = 1

\* The columns of tbl_user and of tbl_image an upsert overwrites on conflict.
UserColumns == {"username", "password", "phone", "privileges", "updated_at"}

ImageColumns == {"user_id", "aspect_id", "name", "description", "visibility",
                 "labels", "file_name", "metadata_id", "updated_at"}

\* The primary key of a record: id in tbl_user, uuid in tbl_image.
KeyOf(e) == IF "id" \in DOMAIN e THEN e.id ELSE e.uuid

\* The row an upsert of record e leaves in a table that held the rows had:
\* every column of e, but the created_at of the row that was there.
Upserted(row, e, had, columns) ==
    /\ \A c \in columns : row[c] = e[c]
    /\ DOMAIN row = DOMAIN e
    /\ row.created_at = IF KeyOf(e) \in DOMAIN had THEN had[KeyOf(e)].created_at
                        ELSE e.created_at

\* C14: once flushed, the row of a legacy user and the row of an accepted
\* legacy image hold the adapted record in every column but created_at,
\* phone being null; created_at is the one the row had before the run when
\* the key was in the target, and the adapted record's when it was not.
C14_UpsertKeepsCreatedAt ==
    /\ (~IsNone(users_summary) /\ target_tx \in {"active", "committed"}) =>
          \A k \in DOMAIN users :
              /\ Upserted(tbl_user[k], _adapt_user_row(users[k], now), pre.tbl_user,
                          UserColumns)
              /\ tbl_user[k].id = k
              /\ IsNone(tbl_user[k].phone)
    /\ \A u \in RunImages :
          /\ Upserted(tbl_image[u],
                      _adapt_image_row(images[u], derive_aspect_id(images[u].kind).value,
                                       now),
                      pre.tbl_image, ImageColumns)
          /\ tbl_image[u].uuid = u

\* A committed run that rewrote a user and an image the target held, whose
\* adapted records carry another created_at, and inserted a user.
C14_Witness ==
    /\ Terminal /\ target_tx = "committed" /\ ~IsNone(result)
    /\ \E k \in DOMAIN users \cap DOMAIN pre.tbl_user :
          _adapt_user_row(users[k], now).created_at # pre.tbl_user[k].created_at
    /\ \E u \in written \cap DOMAIN pre.tbl_image :
          _adapt_image_row(images[u], CardBackground, now).created_at
              # pre.tbl_image[u].created_at
    /\ DOMAIN users \ DOMAIN pre.tbl_user # {}

\* The last call made is a call of fn.
Called(fn) == ~IsNone(call) /\ Val(call).fn = fn

\* C15: _adapt_image_row called with a row, an aspect id, an owner user id
\* and a visibility returns a record with the row's uuid, file_name and
\* trace_id (as metadata_id), the aspect id, owner and visibility given,
\* and the labels build_image_labels makes of the row's kind and category.
C15_AdaptImageRowTakesOwnerAndVisibility ==
    (Called("_adapt_image_row") /\ Len(Val(call).args) = 4) =>
        LET args == Val(call).args
            row == args[1]
        IN  /\ Val(ret).ok
            /\ Val(ret).value.uuid = row.uuid
            /\ Val(ret).value.file_name = row.file_name
            /\ Val(ret).value.metadata_id = row.trace_id
            /\ Val(ret).value.aspect_id = args[2]
            /\ Val(ret).value.user_id = args[3]
            /\ Val(ret).value.visibility = args[4]
            /\ Val(ret).value.labels = build_image_labels(row.kind, row.category)

\* The string is the word in some letter case.
SpellsWord(s, word) ==
    /\ Len(s) = Len(word)
    /\ \A i \in DOMAIN word : s[i] \in {word[i], LowerChar(word[i])}

\* The string is one of the words in some letter case.
SpellsOneOf(kind, words) ==
    /\ ~IsNone(kind)
    /\ \E word \in words : SpellsWord(Val(kind), word)

\* C16: derive_aspect_id returns card-background for BACKGROUND, FRAME,
\* CHARACTER, MASK and LABEL and sega-passname for PASSNAME in any letter
\* case, and raises UnknownAspectError for every other argument, the empty
\* string and None included; it returns no other identifier.
C16_DeriveAspectId ==
    Called("derive_aspect_id") =>
        LET kind == Val(call).args[1]
        IN  /\ SpellsOneOf(kind, {BACKGROUND, FRAME, CHARACTER, MASK, LABEL})
                  => Val(ret) = Returned(CardBackground)
            /\ SpellsOneOf(kind, {PASSNAME}) => Val(ret) = Returned(SegaPassname)
            /\ ~SpellsOneOf(kind, {BACKGROUND, FRAME, CHARACTER, MASK, LABEL, PASSNAME})
                  => Val(ret) = [ok |-> FALSE, error |-> "UnknownAspectError"]
            /\ Val(ret).ok => Val(ret).value \in {CardBackground, SegaPassname}

\* derive_aspect_id returned sega-passname for a spelling in mixed case.
C16_Witness ==
    /\ Called("derive_aspect_id")
    /\ Val(ret) = Returned(SegaPassname)
    /\ Val(Val(call).args[1]) \notin {PASSNAME, Lower(PASSNAME), Title(PASSNAME)}

\* An Optional[str] that is a string with a character that is not blank.
NonBlank(o) == ~IsNone(o) /\ \E i \in DOMAIN Val(o) : ~IsSpace(Val(o)[i])

\* An Optional[str] that is a string of at least one character.
NonEmpty(o) == ~IsNone(o) /\ Len(Val(o)) > 0

\* C17: build_image_labels returns a non-empty list of lower-case strings:
\* the lower-cased kind first when kind is non-empty, then the trimmed
\* lower-cased category when it is non-blank, and ["unclassified"] alone
\* when neither contributes; so the record _adapt_image_row builds, which
\* merge_images writes, has a non-empty labels list.
C17_LabelsNeverEmpty ==
    /\ Called("build_image_labels") =>
          LET kind == Val(call).args[1]
              category == Val(call).args[2]
              labels == Val(ret).value
              count == (IF NonEmpty(kind) THEN 1 ELSE 0)
                       + (IF NonBlank(category) THEN 1 ELSE 0)
          IN  /\ Val(ret).ok
              /\ labels # << >>
              /\ \A i \in DOMAIN labels : Lower(labels[i]) = labels[i]
              /\ count = 0 => labels = <<Unclassified>>
              /\ count > 0 => Len(labels) = count
              /\ NonEmpty(kind) => labels[1] = Lower(Val(kind))
              /\ NonBlank(category) =>
                    /\ labels[Len(labels)] = Lower(Strip(Val(category)))
                    /\ ~IsSpace(Head(labels[Len(labels)]))
                    /\ ~IsSpace(labels[Len(labels)][Len(labels[Len(labels)])])
    /\ (Called("_adapt_image_row") /\ Val(ret).ok) =>
          /\ Val(ret).value.labels # << >>
          /\ Val(ret).value.labels =
                 build_image_labels(Val(call).args[1].kind, Val(call).args[1].category)

\* build_image_labels was called with an empty kind and a blank category.
C17_Witness ==
    /\ Called("build_image_labels")
    /\ Val(call).args = <<Some(<< >>), Some(<<" ">>)>>
    /\ Val(ret) = Returned(<<Unclassified>>)

\* C18: build_image_description returns, trimmed, the first non-blank of
\* label, category and the title-cased kind, and the fixed literal when
\* all three are null, empty or blank; a blank label or category does not
\* win over a later non-blank candidate.
C18_DescriptionFirstNonBlank ==
    Called("build_image_description") =>
        LET label == Val(call).args[1]
            category == Val(call).args[2]
            kind == Val(call).args[3]
            titled == IF NonEmpty(kind) THEN Some(Title(Val(kind))) ELSE None
            description == Val(ret).value
        IN  /\ Val(ret).ok
            /\ NonBlank(label) => description = Strip(Val(label))
            /\ (~NonBlank(label) /\ NonBlank(category))
                  => description = Strip(Val(category))
            /\ (~NonBlank(label) /\ ~NonBlank(category) /\ NonBlank(titled))
                  => description = Strip(Val(titled))
            /\ (~NonBlank(label) /\ ~NonBlank(category) /\ ~NonBlank(titled))
                  => description = FallbackDescription
            /\ description # << >>
            /\ ~IsSpace(Head(description))
            /\ ~IsSpace(description[Len(description)])

\* build_image_description was called with a blank label and a category
\* with blanks around it, and returned the category trimmed.
C18_Witness ==
    /\ Called("build_image_description")
    /\ Val(call).args[1] = Some(<<" ", "\t", "\n">>)
    /\ NonBlank(Val(call).args[2])
    /\ Val(ret).value = Strip(Val(Val(call).args[2]))
    /\ Val(ret).value # Val(Val(call).args[2])

\* The uploader of a legacy image is a legacy user.
UploaderMigrated(row) ==
    /\ ~IsNone(row.uploaded_by)
    /\ Val(row.uploaded_by) \in DOMAIN users

\* C19: a legacy image with a mapped kind whose uploader is a legacy user
\* is never skipped: it gets no warning and is in the pending batch or
\* written, also when merge_users inserted that user in the transaction
\* that is still open; no image of a legacy user is ever skipped as
\* "uploader missing in target".  Every batch size up to MaxRows is run.
C19_MigratedUploaderIsKnown ==
    /\ \A i \in DOMAIN warnings :
          warnings[i][2] = "uploader missing in target"
              => ~UploaderMigrated(images[warnings[i][1]])
    /\ InImageLoop =>
          /\ DOMAIN users \subseteq known_user_ids
          /\ \A row \in ImagesDone :
                (UploaderMigrated(row) /\ derive_aspect_id(row.kind).ok)
                    => /\ WarningsFor(row.uuid) = {}
                       /\ row.uuid \in written \cup Uuids(payload)

\* The image loop is over and nothing is committed yet: an image was
\* written for a user that the target did not hold before the run and that
\* the last flush of merge_users inserted.
C19_Witness ==
    /\ pc = "images_return"
    /\ target_tx = "active"
    /\ config.batch_size > Cardinality(DOMAIN users)
    /\ \E u \in written :
          /\ UploaderMigrated(images[u])
          /\ Val(images[u].uploaded_by) \notin DOMAIN pre.tbl_user
          /\ Val(images[u].uploaded_by) \notin DOMAIN committed.tbl_user
          /\ WarningsFor(u) = {}

\* The rows the loop of the running merge has consumed.
RowsConsumed ==
    IF pc = "users_loop" THEN Len(SelectUsers(users)) - Len(rows)
    ELSE Len(SelectImages(images)) - Len(rows)

\* The pending batch at its longest: after the append of the next row and
\* before the flush that may follow it.
PendingAtMost == IF pc = "users_loop" THEN UsersBatch ELSE ImagesBatch

\* C20: after every row of merge_users and of merge_images, processed is
\* the number of rows consumed and equals inserted + updated + skipped,
\* inserted + updated is the number of rows flushed plus the length of the
\* pending batch, and the pending batch holds at most batch_size rows, also
\* between an append and its flush; once a merge has flushed its last batch,
\* inserted + updated is the number of rows flushed.
C20_CountersAddUp ==
    /\ pc \in {"users_loop", "images_loop"} =>
          /\ summary.processed = RowsConsumed
          /\ summary.processed
                 = summary.inserted + summary.updated + summary.skipped
          /\ summary.inserted + summary.updated = flushed + Len(payload)
          /\ Len(payload) <= config.batch_size
          /\ Len(PendingAtMost) <= config.batch_size
          /\ pc = "users_loop" => summary.skipped = 0
          /\ pc = "images_loop" => flushed = Cardinality(written)
    /\ pc \in {"users_sync", "images_return"} =>
          /\ summary.processed
                 = summary.inserted + summary.updated + summary.skipped
          /\ summary.inserted + summary.updated = flushed

\* In the loop of merge_images, after a flush: one image was inserted, one
\* updated, and a row waits in the pending batch.
C20_Witness ==
    /\ pc = "images_loop"
    /\ flushed > 0
    /\ payload # << >>
    /\ summary.inserted > 0
    /\ summary.updated > 0

\* merge_images skips a legacy image: it has no uploader, or its uploader
\* is neither a user the target held nor a legacy user, or its kind maps
\* to no aspect.
SkippedByRun(row) ==
    \/ IsNone(row.uploaded_by)
    \/ Val(row.uploaded_by) \notin DOMAIN pre.tbl_user \cup DOMAIN users
    \/ ~derive_aspect_id(row.kind).ok

\* The target rows no accepted legacy row has the key of.
ForeignUserIds == DOMAIN pre.tbl_user \ DOMAIN users

ForeignImageUuids ==
    {u \in DOMAIN pre.tbl_image : u \notin DOMAIN images \/ SkippedByRun(images[u])}

\* C21: at every moment of a run, in the open transaction and in what is
\* committed, a tbl_user row whose id is no legacy user id, and a tbl_image
\* row whose uuid is no legacy uuid or the uuid of a legacy image the run
\* skips, is there and is the row the target held before the run.
C21_OtherRowsUntouched ==
    /\ \A id \in ForeignUserIds :
          /\ id \in DOMAIN tbl_user
          /\ tbl_user[id] = pre.tbl_user[id]
          /\ id \in DOMAIN committed.tbl_user
          /\ committed.tbl_user[id] = pre.tbl_user[id]
    /\ \A u \in ForeignImageUuids :
          /\ u \in DOMAIN tbl_image
          /\ tbl_image[u] = pre.tbl_image[u]
          /\ u \in DOMAIN committed.tbl_image
          /\ committed.tbl_image[u] = pre.tbl_image[u]

\* The run is over and committed: it wrote users and an image, skipped the
\* legacy image that has the uuid of a target image, and the target held a
\* user that is no legacy user.
C21_Witness ==
    /\ Terminal
    /\ target_tx = "committed"
    /\ written # {}
    /\ committed.tbl_user # pre.tbl_user
    /\ ForeignUserIds # {}
    /\ \E u \in ForeignImageUuids : u \in DOMAIN images

====
